---- MODULE Spec2Model ----
(***************************************************************************)
(* rules_pip: the lock model and the merge of one environment's resolved   *)
(* requirements into it (src/piprules/lockfile.py), and the generator of   *)
(* the alias packages (src/bin/generate_pip_repositories.py).              *)
(*                                                                         *)
(* Python strings are sequences of one-character strings, so that          *)
(* lower(), replace(), basename(), the `in` test and the ordering used by  *)
(* sorted() and sort_keys are computed and not assumed.  A field that may  *)
(* be None is a set with no element (None) or one element.  A dict of      *)
(* lockfile.py is a function (its order is never observed there:           *)
(* to_json sorts the keys); a dict of the generator is a sequence of       *)
(* <<key, value>> pairs in insertion order, as Python iterates it.         *)
(***************************************************************************)
EXTENDS Integers, Sequences, FiniteSets, TLC

VARIABLES
    environments,          \* LockFile.environments: name -> Environment
    sources,               \* LockFile.sources: name -> Source
    local_wheels_package,  \* LockFile.local_wheels_package
    current,               \* _CURRENT_ENVIRONMENT of the running process
    outcome,               \* how the last update call of this process ended
    warnings,              \* source names LOG.warning was called with by it
    lock_file,             \* the generator's input, as json.load returns it
    pc,                    \* the generator's position in main()
    requirement_tree,      \* what _build_requirement_tree returned
    packages,              \* the package directories written, in order
    bzl_file,              \* the file BzlFileGenerator.generate wrote, if any
    lock_files             \* further LockFile objects of the running process

lockVars == <<environments, sources, local_wheels_package, current, outcome, warnings,
              lock_files>>
genVars == <<lock_file, pc, requirement_tree, packages, bzl_file>>
vars == <<environments, sources, local_wheels_package, current, outcome, warnings,
          lock_file, pc, requirement_tree, packages, bzl_file, lock_files>>

----------------------------------------------------------------------------
(* Strings *)

Ascii == <<"-", ".", "/", "0", "1", "2", "3", "4", "5", "6", "7", "8", "9", ":", "@",
           "A", "B", "C", "D", "E", "F", "G", "H", "I", "J", "K", "L", "M", "N", "O",
           "P", "Q", "R", "S", "T", "U", "V", "W", "X", "Y", "Z", "_",
           "a", "b", "c", "d", "e", "f", "g", "h", "i", "j", "k", "l", "m", "n", "o",
           "p", "q", "r", "s", "t", "u", "v", "w", "x", "y", "z">>
UpperCase == <<"A", "B", "C", "D", "E", "F", "G", "H", "I", "J", "K", "L", "M", "N", "O",
               "P", "Q", "R", "S", "T", "U", "V", "W", "X", "Y", "Z">>
LowerCase == <<"a", "b", "c", "d", "e", "f", "g", "h", "i", "j", "k", "l", "m", "n", "o",
               "p", "q", "r", "s", "t", "u", "v", "w", "x", "y", "z">>

OrdTable == [c \in {Ascii[i] : i \in 1..Len(Ascii)} |-> CHOOSE i \in 1..Len(Ascii) : Ascii[i] = c]
Ord(c) == OrdTable[c]

\* Python's < on str: lexicographic by code point, a proper prefix first.
RECURSIVE StrLess(_, _)
StrLess(a, b) ==
    IF b = <<>> THEN FALSE
    ELSE IF a = <<>> THEN TRUE
    ELSE IF Head(a) = Head(b) THEN StrLess(Tail(a), Tail(b))
    ELSE Ord(Head(a)) < Ord(Head(b))

\* str.lower()
LowerChar(c) ==
    IF \E i \in 1..Len(UpperCase) : UpperCase[i] = c
    THEN LowerCase[CHOOSE i \in 1..Len(UpperCase) : UpperCase[i] = c]
    ELSE c
lower(s) == [i \in 1..Len(s) |-> LowerChar(s[i])]

\* str.replace(old, new) for one-character old and new
replace(s, old, new) == [i \in 1..Len(s) |-> IF s[i] = old THEN new ELSE s[i]]

\* `needle in s`
Contains(s, needle) ==
    \E i \in 1..(Len(s) - Len(needle) + 1) : SubSeq(s, i, i + Len(needle) - 1) = needle

\* "{}".format(n) for the small integers the model uses
FormatInt(n) == <<Ascii[Ord("0") + n]>>

\* str.rfind(c) + 1: the last position of c in s, 0 when there is none
RECURSIVE LastIndexUpTo(_, _, _)
LastIndexUpTo(s, c, i) ==
    IF i = 0 THEN 0 ELSE IF s[i] = c THEN i ELSE LastIndexUpTo(s, c, i - 1)
LastIndexOf(s, c) == LastIndexUpTo(s, c, Len(s))

\* sorted() of a list of str: insertion into an ascending list, duplicates kept
RECURSIVE InsertSorted(_, _)
InsertSorted(x, s) ==
    IF s = <<>> THEN <<x>>
    ELSE IF StrLess(Head(s), x) THEN <<Head(s)>> \o InsertSorted(x, Tail(s))
    ELSE <<x>> \o s
RECURSIVE sorted(_)
sorted(s) == IF s = <<>> THEN <<>> ELSE InsertSorted(Head(s), sorted(Tail(s)))

\* the keys of a dict in the order sort_keys=True writes them
RECURSIVE SortedKeys(_)
SortedKeys(S) ==
    IF S = {} THEN <<>>
    ELSE LET m == CHOOSE x \in S : \A y \in S \ {x} : StrLess(x, y)
         IN <<m>> \o SortedKeys(S \ {m})

None == {}
Some(v) == {v}
TheValue(opt) == CHOOSE v \in opt : TRUE

EmptyDict == [k \in {} |-> k]
\* d[k] = v on a dict
DictSet(d, k, v) == (k :> v) @@ d

gamma == <<"g", "a", "m", "m", "a">>
beta == <<"b", "e", "t", "a">>
MyPackage == <<"M", "y", "-", "P", "a", "c", "k", "a", "g", "e">>
my_package == <<"m", "y", "_", "p", "a", "c", "k", "a", "g", "e">>
linux == <<"l", "i", "n", "u", "x">>
linux2 == <<"l", "i", "n", "u", "x", "2">>
darwin == <<"d", "a", "r", "w", "i", "n">>
osx == <<"o", "s", "x">>


----------------------------------------------------------------------------
(* resolve.py: the resolved records handed to the merge *)

\* urlcompat.urlparse: a URL is kept as the parts urlparse splits it into
Url(scheme, netloc, path) == [scheme |-> scheme, netloc |-> netloc, path |-> path]

\* ResolvedRequirementSource(url, sha256)
ResolvedRequirementSource(url, sha256) == [url |-> url, sha256 |-> sha256]

is_local(resolved_source) == resolved_source.url.scheme = "file"

get_path(resolved_source) == resolved_source.url.path

\* os.path.basename
basename(path) == SubSeq(path, LastIndexOf(path, "/") + 1, Len(path))

get_file_name(resolved_source) == basename(get_path(resolved_source))

\* util.get_path_stem: the base file name without its extension
get_path_stem(path) ==
    LET base == basename(path)
        dot == LastIndexOf(base, ".")
    IN IF dot > 1 THEN SubSeq(base, 1, dot - 1) ELSE base

get_name(resolved_source) ==
    replace(replace(get_path_stem(get_path(resolved_source)), "-", "_"), ".", "_")

\* ResolvedRequirement; attrs are the attributes the object carries
\* (resolve.py's constructor sets no `extras`)
ResolvedRequirement(name, version, source, is_direct, dependencies, extras, attrs) ==
    [name |-> name, version |-> version, source |-> source, is_direct |-> is_direct,
     dependencies |-> dependencies, extras |-> extras, attrs |-> attrs]

AllAttrs == {"name", "version", "source", "is_direct", "dependencies", "extras"}
HasAttr(record, attr) == attr \in record.attrs

----------------------------------------------------------------------------
(* lockfile.py: the lock model *)

\* Source(dict(...)): a field not given is None
Source(url, file, sha256) == [url |-> url, file |-> file, sha256 |-> sha256]

\* Requirement(dict(...)): the _SortedListType fields are converted by sorted()
Requirement(version, is_direct, source, dependencies, extras) ==
    [version |-> version, is_direct |-> is_direct, source |-> source,
     dependencies |-> sorted(dependencies), extras |-> sorted(extras)]

Environment(sys_platform, python_version, requirements) ==
    [sys_platform |-> sys_platform, python_version |-> python_version,
     requirements |-> requirements]

\* Environment.name
EnvironmentName(env) ==
    env.sys_platform \o <<"_", "p", "y">> \o FormatInt(env.python_version)

LockFile(envs, srcs, lwp) ==
    [environments |-> envs, sources |-> srcs, local_wheels_package |-> lwp]

\* lines 139-147: the Source built from a resolved record
new_source(resolved_source) ==
    IF is_local(resolved_source)
    THEN Source(None, Some(get_file_name(resolved_source)), None)
    ELSE Source(Some(resolved_source.url), None, Some(resolved_source.sha256))

\* a variant that warns whenever the derived name is already in the table
warn_if_source_exists(srcs, source_name, source) ==
    source_name \in DOMAIN srcs

\* _warn_if_source_is_changing: TRUE when it calls LOG.warning
warn_if_source_is_changing(srcs, source_name, source) ==
    /\ source_name \in DOMAIN srcs
    /\ source # srcs[source_name]

\* _is_source_used
is_source_used(envs, source_key) ==
    \E e \in DOMAIN envs : \E r \in DOMAIN envs[e].requirements :
        envs[e].requirements[r].source = source_key

\* a variant that purges nothing
purge_nothing(envs, srcs) == srcs

\* _purge_unused_sources
purge_unused_sources(envs, srcs) ==
    [k \in {key \in DOMAIN srcs : is_source_used(envs, key)} |-> srcs[k]]

\* _get_or_create_current_environment: environments.setdefault(name, current)
get_or_create_current_environment(envs, cur) ==
    IF EnvironmentName(cur) \in DOMAIN envs
    THEN envs
    ELSE DictSet(envs, EnvironmentName(cur), cur)

\* lines 149-158 for one record, source_name and source being those of lines
\* 137-147; acc holds self.sources, new_requirements and the warnings logged
\* so far.  An attribute the record lacks raises where the code reads it.
update_record(acc, rr, source_name, source) ==
    LET warned == IF warn_if_source_is_changing(acc.sources, source_name, source)
                  THEN Append(acc.warnings, source_name)
                  ELSE acc.warnings
        srcs == DictSet(acc.sources, source_name, source)
    IN IF rr.attrs # AllAttrs
       THEN [sources |-> srcs, new_requirements |-> acc.new_requirements,
             warnings |-> warned, raised |-> TRUE]
       ELSE [sources |-> srcs,
             new_requirements |->
                 DictSet(acc.new_requirements, rr.name,
                     Requirement(rr.version, rr.is_direct, source_name,
                                 rr.dependencies, rr.extras)),
             warnings |-> warned, raised |-> FALSE]

\* the loop of update_requirements_for_current_environment from record i on.
\* (The record's name and Source and the accumulator are bound by a set
\* constructor, which evaluates each of them once.)
RECURSIVE update_loop(_, _, _)
update_loop(resolved_requirements, i, acc) ==
    IF i > Len(resolved_requirements) \/ acc.raised THEN acc
    ELSE
      LET rr == resolved_requirements[i] IN
      IF ~HasAttr(rr, "source") THEN [acc EXCEPT !.raised = TRUE]
      ELSE CHOOSE result \in
             { update_loop(resolved_requirements, i + 1, next_acc)
                 : next_acc \in { update_record(acc, rr, source_name, source)
                                    : source_name \in {get_name(rr.source)},
                                      source \in {new_source(rr.source)} } } : TRUE

\* a variant that purges against the requirement maps as they were before the
\* replacement
finish_update_purging_first(envs, cur, srcs, new_requirements) ==
    [environments |-> [get_or_create_current_environment(envs, cur)
                          EXCEPT ![EnvironmentName(cur)].requirements = new_requirements],
     sources |-> purge_unused_sources(envs, srcs)]

\* lines 160-161: the requirement map replaced, then the purge
finish_update(envs, cur, srcs, new_requirements) ==
    CHOOSE done \in
        { [environments |-> envs2, sources |-> purge_unused_sources(envs2, srcs)]
            : envs2 \in { [get_or_create_current_environment(envs, cur)
                             EXCEPT ![EnvironmentName(cur)].requirements = new_requirements] } }
        : TRUE

\* lines 160-161 reached only when the loop did not raise
update_finished(envs, cur, looped) ==
    IF looped.raised
    THEN [environments |-> envs, sources |-> looped.sources,
          warnings |-> looped.warnings, raised |-> TRUE]
    ELSE CHOOSE result \in
           { [environments |-> done.environments, sources |-> done.sources,
              warnings |-> looped.warnings, raised |-> FALSE]
               : done \in { finish_update(envs, cur, looped.sources,
                                          looped.new_requirements) } } : TRUE

\* a variant that adds the records to the requirement map the environment has
update_keeping_requirements(envs, srcs, cur, resolved_requirements) ==
    update_finished(envs, cur,
        update_loop(resolved_requirements, 1,
            [sources |-> srcs,
             new_requirements |->
                 IF EnvironmentName(cur) \in DOMAIN envs
                 THEN envs[EnvironmentName(cur)].requirements ELSE EmptyDict,
             warnings |-> <<>>, raised |-> FALSE]))

\* update_requirements_for_current_environment on a LockFile whose fields are
\* envs and srcs: the fields afterwards, the warnings, and whether it raised
update_requirements_for_current_environment(envs, srcs, cur, resolved_requirements) ==
    CHOOSE result \in
        { update_finished(envs, cur, looped)
            : looped \in { update_loop(resolved_requirements, 1,
                               [sources |-> srcs, new_requirements |-> EmptyDict,
                                warnings |-> <<>>, raised |-> FALSE]) } } : TRUE

----------------------------------------------------------------------------
(* to_json / from_json: the text is the sequence of <<key, value>> pairs in   *)
(* the order json.dumps(sort_keys=True) writes them                          *)

\* a dict of values already primitive, as sort_keys=True writes it
DictToJson(d) ==
    LET keys == SortedKeys(DOMAIN d)
    IN [i \in 1..Len(keys) |-> <<keys[i], d[keys[i]]>>]

RequirementToJson(r) ==
    << <<"dependencies", r.dependencies>>, <<"extras", r.extras>>,
       <<"is_direct", r.is_direct>>, <<"source", r.source>>, <<"version", r.version>> >>

EnvironmentToJson(e) ==
    << <<"python_version", e.python_version>>,
       <<"requirements", DictToJson([k \in DOMAIN e.requirements |->
                                       RequirementToJson(e.requirements[k])])>>,
       <<"sys_platform", e.sys_platform>> >>

\* serialize_when_none=False: a None field is not written
SourceToJson(s) ==
    (IF s.file = None THEN <<>> ELSE << <<"file", TheValue(s.file)>> >>)
    \o (IF s.sha256 = None THEN <<>> ELSE << <<"sha256", TheValue(s.sha256)>> >>)
    \o (IF s.url = None THEN <<>> ELSE << <<"url", TheValue(s.url)>> >>)

to_json(lock) ==
    << <<"environments", DictToJson([k \in DOMAIN lock.environments |->
                                         EnvironmentToJson(lock.environments[k])])>>,
       <<"local_wheels_package", lock.local_wheels_package>>,
       <<"sources", DictToJson([k \in DOMAIN lock.sources |->
                                    SourceToJson(lock.sources[k])])>> >>

JsonHas(obj, key) == \E i \in 1..Len(obj) : obj[i][1] = key
JsonGet(obj, key) == obj[CHOOSE i \in 1..Len(obj) : obj[i][1] = key][2]
JsonGetOrNone(obj, key) == IF JsonHas(obj, key) THEN Some(JsonGet(obj, key)) ELSE None

\* the dict json.loads makes of an object
DictFromJson(obj) ==
    [k \in {obj[i][1] : i \in 1..Len(obj)} |-> JsonGet(obj, k)]

RequirementFromJson(obj) ==
    Requirement(JsonGet(obj, "version"), JsonGet(obj, "is_direct"), JsonGet(obj, "source"),
                JsonGet(obj, "dependencies"), JsonGet(obj, "extras"))

EnvironmentFromJson(obj) ==
    Environment(JsonGet(obj, "sys_platform"), JsonGet(obj, "python_version"),
                LET raw == DictFromJson(JsonGet(obj, "requirements"))
                IN [k \in DOMAIN raw |-> RequirementFromJson(raw[k])])

\* a variant that does not read sha256
source_from_json_without_sha256(obj) ==
    Source(JsonGetOrNone(obj, "url"), JsonGetOrNone(obj, "file"), None)

SourceFromJson(obj) ==
    Source(JsonGetOrNone(obj, "url"), JsonGetOrNone(obj, "file"), JsonGetOrNone(obj, "sha256"))

from_json(text) ==
    LET raw_environments == DictFromJson(JsonGet(text, "environments"))
        raw_sources == DictFromJson(JsonGet(text, "sources"))
    IN LockFile([k \in DOMAIN raw_environments |->
                    EnvironmentFromJson(raw_environments[k])],
                [k \in DOMAIN raw_sources |-> SourceFromJson(raw_sources[k])],
                JsonGet(text, "local_wheels_package"))


----------------------------------------------------------------------------
(* The inputs of the merge *)

MaxRecords == 2

f_gamma10 == <<"/", "g", "a", "m", "m", "a", "-", "1", ".", "0", ".", "w", "h", "l">>
f_gamma11 == <<"/", "g", "a", "m", "m", "a", "-", "1", ".", "1", ".", "w", "h", "l">>
f_beta10 == <<"/", "w", "/", "b", "e", "t", "a", "-", "1", ".", "0", ".", "w", "h", "l">>

\* http://a/gamma-1.0.whl, http://a/gamma-1.1.whl, the 1.0 wheel on another
\* host (the same derived name, another artifact) and a locally built wheel
GammaSources ==
    { ResolvedRequirementSource(Url("http", "a", f_gamma10), "sha-1"),
      ResolvedRequirementSource(Url("http", "a", f_gamma11), "sha-2"),
      ResolvedRequirementSource(Url("http", "b", f_gamma10), "sha-3") }
BetaSources ==
    { ResolvedRequirementSource(Url("file", "", f_beta10), "sha-4") }

VersionOf(source) == IF get_path(source) = f_gamma11 THEN "1.1" ELSE "1.0"

\* dist.requires() of gamma: 1.1 names my_package in two of its requirements
DependenciesOf(source) ==
    IF get_path(source) = f_gamma11
    THEN <<my_package, beta, my_package>>
    ELSE <<my_package, beta>>

\* what the resolver hands over: gamma, requested directly and depending on
\* beta, and beta; and beta from a resolver whose records carry no extras
ResolvedRequirements ==
    { ResolvedRequirement(gamma, VersionOf(s), s, TRUE, DependenciesOf(s), <<>>, AllAttrs)
        : s \in GammaSources }
    \cup { ResolvedRequirement(beta, VersionOf(s), s, FALSE, <<>>, <<>>, a)
        : s \in BetaSources, a \in {AllAttrs, AllAttrs \ {"extras"}} }

RECURSIVE ListsUpTo(_, _)
ListsUpTo(S, n) ==
    IF n = 0 THEN {<<>>}
    ELSE LET shorter == ListsUpTo(S, n - 1)
         IN shorter \cup {Append(l, x) : l \in shorter, x \in S}

RecordLists == ListsUpTo(ResolvedRequirements, MaxRecords)

\* the interpreters the tool is run under
CurrentEnvironments ==
    { Environment(linux, 3, EmptyDict), Environment(darwin, 3, EmptyDict) }

----------------------------------------------------------------------------
(* The generator's input and output are idle while the lock file is merged *)

\* the values of the field local_wheels_package: unset, or a package label
LocalWheelsPackages == { None, Some(<<"/", "/", "w">>) }

NoLockFile == [environments |-> <<>>, sources |-> <<>>, local_wheels_package |-> None]
GenIdle ==
    /\ lock_file = NoLockFile
    /\ pc = "idle"
    /\ requirement_tree = <<>>
    /\ packages = <<>>
    /\ bzl_file = None

----------------------------------------------------------------------------
(* Merging: one process per environment, each loading the lock file,       *)
(* calling update_requirements_for_current_environment and dumping it      *)

\* lockfile.load of a missing file: LockFile()
Init ==
    /\ environments = EmptyDict
    /\ sources = EmptyDict
    /\ local_wheels_package = None
    /\ current \in CurrentEnvironments
    /\ outcome = "none"
    /\ warnings = <<>>
    /\ lock_files = <<>>
    /\ GenIdle

Update(rs) ==
    /\ outcome # "raised"
    /\ \E result \in { update_requirements_for_current_environment(
                          environments, sources, current, rs) } :
       /\ environments' = result.environments
       /\ sources' = result.sources
       /\ warnings' = result.warnings
       /\ outcome' = IF result.raised THEN "raised" ELSE "ok"
       /\ UNCHANGED <<local_wheels_package, current, lock_files>>
       /\ UNCHANGED genVars

\* dump, then load in a process of another interpreter or platform; a call
\* that raised ends its process before the dump
NewProcess(env) ==
    /\ outcome # "raised"
    /\ \E loaded \in { from_json(to_json(LockFile(environments, sources,
                                                local_wheels_package))) } :
       /\ environments' = loaded.environments
       /\ sources' = loaded.sources
       /\ local_wheels_package' = loaded.local_wheels_package
       /\ current' = env
       /\ outcome' = "none"
       /\ warnings' = <<>>
       /\ UNCHANGED lock_files
       /\ UNCHANGED genVars

Next ==
    \/ \E rs \in RecordLists : Update(rs)
    \/ \E env \in CurrentEnvironments : NewProcess(env)

Spec == Init /\ [][Next]_vars

----------------------------------------------------------------------------
(* Several LockFile objects in one process.  An entry of a LockFile's       *)
(* environments is either the object _CURRENT_ENVIRONMENT itself (None      *)
(* here), whose state is the variable current, or an Environment object of *)
(* the LockFile's own (Some(environment)).                                  *)

LockFileIds == 1..2

MaxSharedRecords == 1

\* the records of one call made on one of several LockFile objects
SharedRecordLists == ListsUpTo(ResolvedRequirements, MaxSharedRecords)

\* the Environment an entry refers to
Deref(entry, cur) == IF entry = None THEN cur ELSE TheValue(entry)

\* self.environments as the code reads it: name -> Environment
EnvironmentsOf(lf, cur) ==
    [name \in DOMAIN lf.environments |-> Deref(lf.environments[name], cur)]

\* setdefault(_CURRENT_ENVIRONMENT.name, _CURRENT_ENVIRONMENT) on the entries
setdefault_current(entries, cur) ==
    IF EnvironmentName(cur) \in DOMAIN entries
    THEN entries
    ELSE DictSet(entries, EnvironmentName(cur), None)

\* whether the entry setdefault returns is the object _CURRENT_ENVIRONMENT
ReturnsCurrent(entries, cur) == setdefault_current(entries, cur)[EnvironmentName(cur)] = None

\* LockFile(): two new objects, in a process that has merged nothing
SharedInit ==
    /\ current \in CurrentEnvironments
    /\ lock_files = [id \in LockFileIds |-> [environments |-> EmptyDict, sources |-> EmptyDict]]
    /\ environments = EmptyDict
    /\ sources = EmptyDict
    /\ local_wheels_package = None
    /\ outcome = "none"
    /\ warnings = <<>>
    /\ GenIdle

\* lock_files[id].update_requirements_for_current_environment(rs): line 160
\* assigns the requirement map to the object setdefault returned
SharedUpdate(id, rs) ==
    /\ outcome # "raised"
    /\ \E lf \in { lock_files[id] } :
       \E result \in { update_requirements_for_current_environment(
                           EnvironmentsOf(lf, current), lf.sources, current, rs) } :
       \E entries \in { IF result.raised THEN lf.environments
                        ELSE setdefault_current(lf.environments, current) } :
          /\ lock_files' =
                [lock_files EXCEPT ![id] =
                    [environments |->
                        [name \in DOMAIN entries |->
                            IF entries[name] = None THEN None
                            ELSE Some(result.environments[name])],
                     sources |-> result.sources]]
          /\ current' = IF ~result.raised /\ ReturnsCurrent(lf.environments, current)
                        THEN result.environments[EnvironmentName(current)]
                        ELSE current
          /\ warnings' = result.warnings
          /\ outcome' = IF result.raised THEN "raised" ELSE "ok"
          /\ UNCHANGED <<environments, sources, local_wheels_package>>
          /\ UNCHANGED genVars

\* lock_files[id].get_requirements_for_current_environment()
SharedGet(id) ==
    /\ outcome # "raised"
    /\ lock_files' = [lock_files EXCEPT ![id].environments =
                         setdefault_current(lock_files[id].environments, current)]
    /\ UNCHANGED <<environments, sources, local_wheels_package, current, outcome, warnings>>
    /\ UNCHANGED genVars

\* lock_files[from].dump(path), then lock_files[id] = LockFile.load(path):
\* every Environment of the loaded LockFile is a new object
SharedReload(id, from) ==
    /\ outcome # "raised"
    /\ \E loaded \in { from_json(to_json(LockFile(
                           EnvironmentsOf(lock_files[from], current),
                           lock_files[from].sources, None))) } :
          lock_files' =
              [lock_files EXCEPT ![id] =
                  [environments |-> [name \in DOMAIN loaded.environments |->
                                        Some(loaded.environments[name])],
                   sources |-> loaded.sources]]
    /\ UNCHANGED <<environments, sources, local_wheels_package, current, outcome, warnings>>
    /\ UNCHANGED genVars

SharedNext ==
    \/ \E id \in LockFileIds, rs \in SharedRecordLists : SharedUpdate(id, rs)
    \/ \E id \in LockFileIds : SharedGet(id)
    \/ \E id, from \in LockFileIds : SharedReload(id, from)

SpecShared == SharedInit /\ [][SharedNext]_vars


----------------------------------------------------------------------------
(* generate_pip_repositories.py: a dict is a sequence of <<key, value>>     *)
(* pairs in insertion order                                                *)

ODHas(d, k) == \E i \in 1..Len(d) : d[i][1] = k
ODGet(d, k) == d[CHOOSE i \in 1..Len(d) : d[i][1] = k][2]
ODKeys(d) == [i \in 1..Len(d) |-> d[i][1]]
\* d[k] = v: an existing key keeps its place, a new one goes last
ODSet(d, k, v) ==
    IF ODHas(d, k)
    THEN [i \in 1..Len(d) |-> IF d[i][1] = k THEN <<k, v>> ELSE d[i]]
    ELSE Append(d, <<k, v>>)
\* d.setdefault(k, {})
ODGetOrEmpty(d, k) == IF ODHas(d, k) THEN ODGet(d, k) ELSE <<>>

normalize_distribution_name(name) == replace(lower(name), "-", "_")

convert_sys_platform_to_bazel(sys_platform) ==
    IF sys_platform = darwin THEN osx
    ELSE IF Contains(sys_platform, linux) THEN linux
    ELSE sys_platform

make_python_specific_alias(python_version) == <<"p", "y">> \o FormatInt(python_version)

make_environment_specific_alias(python_version, platform) ==
    <<"p", "y">> \o FormatInt(python_version) \o <<"_">> \o platform

make_python_version_label(version) ==
    <<"@", "b", "a", "z", "e", "l", "_", "t", "o", "o", "l", "s", "/", "/", "t", "o", "o",
      "l", "s", "/", "p", "y", "t", "h", "o", "n", ":", "P", "Y">> \o FormatInt(version)

make_platform_label(rules_pip_repo, platform) ==
    <<"@">> \o rules_pip_repo
        \o <<"/", "/", "p", "l", "a", "t", "f", "o", "r", "m", "s", ":">> \o platform

get_source_repo_name(source_name) == <<"p", "i", "p", "_", "_">> \o source_name

make_source_repo_label(source_name) == <<"@">> \o get_source_repo_name(source_name)

make_source_lib_label(source_name) ==
    make_source_repo_label(source_name) \o <<"/", "/", ":", "l", "i", "b">>

make_package_label(name) == <<"/", "/">> \o name

make_variable_definition(name, value) ==
    name \o <<" ", "=", " ", "\"">> \o value \o <<"\"">>

VisibilitySubpackages ==
    <<"/", "/", ":", "_", "_", "s", "u", "b", "p", "a", "c", "k", "a", "g", "e", "s", "_", "_">>
VisibilityPublic ==
    <<"/", "/", "v", "i", "s", "i", "b", "i", "l", "i", "t", "y", ":", "p", "u", "b", "l", "i", "c">>
VisibilityPrivate ==
    <<"/", "/", "v", "i", "s", "i", "b", "i", "l", "i", "t", "y", ":", "p", "r", "i", "v", "a", "t", "e">>

\* the argument rules_pip_repo of main()
rules_pip_repo == <<"r", "u", "l", "e", "s", "_", "p", "i", "p">>

\* _build_requirement_tree, lines 147-154: the requirements of one environment
RECURSIVE tree_add_requirements(_, _, _, _, _)
tree_add_requirements(tree, python_version, bazel_platform, requirements, j) ==
    IF j > Len(requirements) THEN tree
    ELSE
      LET normalized_name == normalize_distribution_name(requirements[j][1])
          python_subtree == ODGetOrEmpty(tree, normalized_name)
          platform_subtree == ODGetOrEmpty(python_subtree, python_version)
          tree2 == ODSet(tree, normalized_name,
                       ODSet(python_subtree, python_version,
                           ODSet(platform_subtree, bazel_platform, requirements[j][2])))
      IN tree_add_requirements(tree2, python_version, bazel_platform, requirements, j + 1)

\* _build_requirement_tree, lines 141-145: the environments from the i-th on
RECURSIVE tree_add_environments(_, _, _)
tree_add_environments(tree, envs, i) ==
    IF i > Len(envs) THEN tree
    ELSE
      LET environment_details == envs[i][2]
          tree2 == tree_add_requirements(tree, environment_details.python_version,
                       convert_sys_platform_to_bazel(environment_details.sys_platform),
                       environment_details.requirements, 1)
      IN tree_add_environments(tree2, envs, i + 1)

build_requirement_tree(lock) == tree_add_environments(<<>>, lock.environments, 1)

\* the rules written to a BUILD file
PyLibrary(name, deps) ==
    [kind |-> "py_library", name |-> name, deps |-> deps, actual |-> <<>>,
     visibility |-> <<>>]
\* SelectAlias.__str__
SelectAlias(name, actual, visibility) ==
    [kind |-> "alias", name |-> name, deps |-> <<>>, actual |-> actual,
     visibility |-> visibility]

\* a variant that labels the dependencies as they are written
dependency_labels_as_written(requirement_details) ==
    <<make_source_lib_label(requirement_details.source)>>
    \o [i \in 1..Len(requirement_details.dependencies) |->
            make_package_label(requirement_details.dependencies[i])]

\* _generate_dependency_labels
generate_dependency_labels(requirement_details) ==
    <<make_source_lib_label(requirement_details.source)>>
    \o [i \in 1..Len(requirement_details.dependencies) |->
            make_package_label(
                normalize_distribution_name(requirement_details.dependencies[i]))]

\* _generate_py_library
generate_py_library(requirement_details, python_version, platform) ==
    PyLibrary(make_environment_specific_alias(python_version, platform),
              generate_dependency_labels(requirement_details))

\* _generate_python_version_alias; its visibility stays the constructor's
RECURSIVE version_alias_actual(_, _, _, _)
version_alias_actual(actual, python_version, platform_subtree, i) ==
    IF i > Len(platform_subtree) THEN actual
    ELSE
      LET platform == platform_subtree[i][1]
          platform_label == make_platform_label(rules_pip_repo,
                                convert_sys_platform_to_bazel(platform))
      IN version_alias_actual(
             ODSet(actual, platform_label,
                   make_environment_specific_alias(python_version, platform)),
             python_version, platform_subtree, i + 1)

\* a variant whose arms all lead to the target of the first platform
version_alias_to_first_target(python_version, platform_subtree) ==
    SelectAlias(make_python_specific_alias(python_version),
                [i \in 1..Len(platform_subtree) |->
                    <<make_platform_label(rules_pip_repo, platform_subtree[i][1]),
                      make_environment_specific_alias(python_version,
                                                      platform_subtree[1][1])>>],
                VisibilityPrivate)

generate_python_version_alias(python_version, platform_subtree) ==
    SelectAlias(make_python_specific_alias(python_version),
                version_alias_actual(<<>>, python_version, platform_subtree, 1),
                VisibilityPrivate)

\* _generate_rules_for_requirement, lines 194-201: the platforms of one version
platform_rules(python_version, platform_subtree) ==
    [i \in 1..Len(platform_subtree) |->
        generate_py_library(platform_subtree[i][2], python_version, platform_subtree[i][1])]

\* a variant that looks at the last platform only
last_is_direct(platform_subtree) ==
    platform_subtree[Len(platform_subtree)][2].is_direct

\* lines 200-201 over the platforms of one version
any_is_direct(platform_subtree) ==
    \E i \in 1..Len(platform_subtree) : platform_subtree[i][2].is_direct

\* _generate_rules_for_requirement, lines 193-211: the versions from the i-th
\* on; acc holds the rules yielded, the visibility and top_alias.actual
RECURSIVE version_rules(_, _, _)
version_rules(python_subtree, i, acc) ==
    IF i > Len(python_subtree) THEN acc
    ELSE
      LET python_version == python_subtree[i][1]
          platform_subtree == python_subtree[i][2]
          version_alias == generate_python_version_alias(python_version, platform_subtree)
      IN version_rules(python_subtree, i + 1,
             [rules |-> acc.rules \o platform_rules(python_version, platform_subtree)
                            \o <<version_alias>>,
              visibility |-> IF any_is_direct(platform_subtree)
                             THEN VisibilityPublic ELSE acc.visibility,
              actual |-> ODSet(acc.actual, make_python_version_label(python_version),
                               version_alias.name)])

generate_rules_for_requirement(requirement_name, python_subtree) ==
    LET walked == version_rules(python_subtree, 1,
                      [rules |-> <<>>, visibility |-> VisibilitySubpackages,
                       actual |-> <<>>])
    IN walked.rules
       \o <<SelectAlias(requirement_name, walked.actual, walked.visibility)>>

\* a variant that looks at the first platform only
seen_for_first_platform(platform_subtree) ==
    { make_source_repo_label(platform_subtree[1][2].source) }

\* the source repo labels of the cells of one interpreter version, as a set
seen_for_python_version(platform_subtree) ==
    { make_source_repo_label(platform_subtree[i][2].source) : i \in 1..Len(platform_subtree) }

\* _generate_repo_variables, lines 262-277: the versions from the i-th on
RECURSIVE version_variables(_, _)
version_variables(python_subtree, i) ==
    IF i > Len(python_subtree) THEN <<>>
    ELSE
      LET python_version == python_subtree[i][1]
          platform_subtree == python_subtree[i][2]
          seen == seen_for_python_version(platform_subtree)
          cells == [k \in 1..Len(platform_subtree) |->
                      make_variable_definition(
                          make_environment_specific_alias(python_version,
                                                          platform_subtree[k][1]),
                          make_source_repo_label(platform_subtree[k][2].source))]
          collapsed == IF Cardinality(seen) = 1
                       THEN <<make_variable_definition(
                                  make_python_specific_alias(python_version),
                                  CHOOSE label \in seen : TRUE)>>
                       ELSE <<>>
      IN cells \o collapsed \o version_variables(python_subtree, i + 1)

generate_repo_variables(python_subtree) ==
    LET all_seen == UNION { seen_for_python_version(python_subtree[i][2])
                              : i \in 1..Len(python_subtree) }
    IN version_variables(python_subtree, 1)
       \o (IF Cardinality(all_seen) = 1
           THEN <<make_variable_definition(<<"a", "l", "l">>, CHOOSE label \in all_seen : TRUE)>>
           ELSE <<>>)

\* _generate_package_for_requirement: the directory and its two files
generate_package_for_requirement(requirement_name, python_subtree) ==
    [dir |-> requirement_name,
     build |-> generate_rules_for_requirement(requirement_name, python_subtree),
     repos |-> generate_repo_variables(python_subtree)]


\* "{}".format(x) of a value that may be None
FormatOptional(opt) == IF opt = None THEN <<"N", "o", "n", "e">> ELSE TheValue(opt)

\* a variant that never writes the sha256 of the source
remote_wheel_rule_without_sha256(name, source) ==
    [kind |-> "remote_wheel",
     guard |-> get_source_repo_name(name),
     name |-> get_source_repo_name(name),
     url |-> ODGet(source, "url"),
     sha256 |-> "",
     wheel |-> <<>>]

\* _generate_remote_wheel_rule; guard is the name existing_rule is asked for
generate_remote_wheel_rule(name, source) ==
    [kind |-> "remote_wheel",
     guard |-> get_source_repo_name(name),
     name |-> get_source_repo_name(name),
     url |-> ODGet(source, "url"),
     sha256 |-> IF ODHas(source, "sha256") THEN ODGet(source, "sha256") ELSE "",
     wheel |-> <<>>]

\* _generate_local_wheel_rule
generate_local_wheel_rule(lock, name, source) ==
    [kind |-> "local_wheel",
     guard |-> get_source_repo_name(name),
     name |-> get_source_repo_name(name),
     url |-> <<>>,
     sha256 |-> "",
     wheel |-> FormatOptional(lock.local_wheels_package) \o <<":">> \o ODGet(source, "file")]

\* _generate_all_pip_repo_rules
generate_all_pip_repo_rules(lock) ==
    [i \in 1..Len(lock.sources) |->
        IF ODHas(lock.sources[i][2], "url")
        THEN generate_remote_wheel_rule(lock.sources[i][1], lock.sources[i][2])
        ELSE generate_local_wheel_rule(lock, lock.sources[i][1], lock.sources[i][2])]

\* _generate_content: the load statement of rules_pip_repo, then pip_install()
generate_content(lock) ==
    [load |-> <<"@">> \o rules_pip_repo
                \o <<"/", "/", "r", "u", "l", "e", "s", ":", "w", "h", "e", "e", "l",
                     ".", "b", "z", "l">>,
     pip_install |-> generate_all_pip_repo_rules(lock)]

\* load_requirements of a file LockFile.dump wrote: json.load of the text
RequirementsFromText(obj) ==
    [j \in 1..Len(obj) |->
        <<obj[j][1],
          [version |-> JsonGet(obj[j][2], "version"),
           is_direct |-> JsonGet(obj[j][2], "is_direct"),
           source |-> JsonGet(obj[j][2], "source"),
           dependencies |-> JsonGet(obj[j][2], "dependencies"),
           extras |-> JsonGet(obj[j][2], "extras")]>>]

load_requirements(text) ==
    [environments |->
        [i \in 1..Len(JsonGet(text, "environments")) |->
            LET item == JsonGet(text, "environments")[i] IN
            <<item[1],
              [python_version |-> JsonGet(item[2], "python_version"),
               sys_platform |-> JsonGet(item[2], "sys_platform"),
               requirements |-> RequirementsFromText(JsonGet(item[2], "requirements"))]>>],
     sources |-> JsonGet(text, "sources"),
     local_wheels_package |-> JsonGet(text, "local_wheels_package")]

----------------------------------------------------------------------------
(* The inputs of the generator: lock files of up to MaxEnvs environments,   *)
(* each with one requirement                                               *)

MaxEnvs == 2

\* (sys_platform, python_version) of the interpreters that wrote the lock file
EnvironmentKinds == { <<linux, 3>>, <<linux2, 3>>, <<darwin, 3>>, <<linux2, 2>> }

gamma_1_0 == <<"g", "a", "m", "m", "a", "_", "1", "_", "0">>
beta_1_0 == <<"b", "e", "t", "a", "_", "1", "_", "0">>
GenSourceNames == { gamma_1_0, beta_1_0 }
GenRequirementNames == { MyPackage, my_package, beta }

\* the sources section: gamma_1_0 is fetched, beta_1_0 is a local wheel
GenSourceTable ==
    << <<beta_1_0, << <<"file", <<"b", "e", "t", "a", "-", "1", ".", "0", ".", "w", "h", "l">> >> >> >>,
       <<gamma_1_0, << <<"sha256", "sha-1">>, <<"url", Url("http", "a", f_gamma10)>> >> >> >>

\* a requirement from gamma_1_0, asked for directly or not, or one from
\* beta_1_0 that is only a dependency
GenRequirementDetails ==
    { [version |-> "1.0", is_direct |-> d, source |-> gamma_1_0,
       dependencies |-> <<MyPackage, my_package>>, extras |-> <<>>] : d \in BOOLEAN }
    \cup { [version |-> "1.0", is_direct |-> FALSE, source |-> beta_1_0,
             dependencies |-> <<MyPackage, my_package>>, extras |-> <<>>] }

GenRequirementDicts ==
    { << <<n, rd>> >> : n \in GenRequirementNames, rd \in GenRequirementDetails }

GenEnvironments ==
    { << k[1] \o <<"_", "p", "y">> \o FormatInt(k[2]),
         [python_version |-> k[2], sys_platform |-> k[1], requirements |-> rq] >>
        : k \in EnvironmentKinds, rq \in GenRequirementDicts }

RECURSIVE EnvironmentDictsUpTo(_)
EnvironmentDictsUpTo(n) ==
    IF n = 0 THEN { <<>> }
    ELSE LET shorter == EnvironmentDictsUpTo(n - 1)
         IN shorter \cup
            { Append(p[1], p[2])
                : p \in { q \in shorter \X GenEnvironments : ~ODHas(q[1], q[2][1]) } }

SourceReferenced(envs, name) ==
    \E i \in 1..Len(envs) : \E j \in 1..Len(envs[i][2].requirements) :
        envs[i][2].requirements[j][2].source = name

GenLockFile(envs) ==
    [environments |-> envs,
     sources |-> SelectSeq(GenSourceTable, LAMBDA item : SourceReferenced(envs, item[1])),
     local_wheels_package |-> Some(<<"/", "/", "w">>)]

GenLockFiles == { GenLockFile(envs) : envs \in EnvironmentDictsUpTo(MaxEnvs) }

\* no lock file is merged while the generator runs
LockIdle ==
    /\ environments = EmptyDict
    /\ sources = EmptyDict
    /\ local_wheels_package = None
    /\ current = Environment(linux, 3, EmptyDict)
    /\ outcome = "none"
    /\ warnings = <<>>
    /\ lock_files = <<>>

----------------------------------------------------------------------------
(* BzlFileGenerator.generate: lock files whose sources section holds up to  *)
(* MaxSources sources, and lock files the merge wrote                       *)

MaxSources == 2

BzlSourceNames == { get_name(s) : s \in GammaSources \cup BetaSources }

\* the entries a source of the lock file can carry: a url with or without
\* its sha256, or a file with or without a sha256
BzlSourceDicts ==
    { << <<"sha256", "sha-1">>, <<"url", Url("http", "a", f_gamma10)>> >>,
      << <<"url", Url("http", "b", f_gamma11)>> >>,
      << <<"file", get_file_name(ResolvedRequirementSource(Url("file", "", f_beta10), "sha-4"))>> >>,
      << <<"file", get_file_name(ResolvedRequirementSource(Url("file", "", f_gamma10), "sha-1"))>>,
         <<"sha256", "sha-1">> >> }

RECURSIVE SourceTablesUpTo(_)
SourceTablesUpTo(n) ==
    IF n = 0 THEN { <<>> }
    ELSE LET shorter == SourceTablesUpTo(n - 1)
         IN shorter \cup
            { Append(p[1], <<p[2], p[3]>>)
                : p \in { q \in shorter \X BzlSourceNames \X BzlSourceDicts
                            : ~ODHas(q[1], q[2]) } }

BzlLockFiles ==
    { [environments |-> <<>>, sources |-> table, local_wheels_package |-> lwp]
        : table \in SourceTablesUpTo(MaxSources), lwp \in LocalWheelsPackages }

\* main() reading a lock file written by hand or by another tool
BzlInitGiven ==
    /\ lock_file \in BzlLockFiles
    /\ LockIdle

\* main() reading the lock file the merge of rs into an empty LockFile dumped
BzlInitMerged ==
    \E cur \in CurrentEnvironments, rs \in RecordLists, lwp \in LocalWheelsPackages :
        \E result \in { update_requirements_for_current_environment(
                            EmptyDict, EmptyDict, cur, rs) } :
            /\ ~result.raised
            /\ environments = result.environments
            /\ sources = result.sources
            /\ local_wheels_package = lwp
            /\ current = cur
            /\ outcome = "ok"
            /\ warnings = result.warnings
            /\ lock_files = <<>>
            /\ lock_file = load_requirements(
                               to_json(LockFile(result.environments, result.sources, lwp)))

BzlInit ==
    /\ pc = "start"
    /\ requirement_tree = <<>>
    /\ packages = <<>>
    /\ bzl_file = None
    /\ (BzlInitGiven \/ BzlInitMerged)

\* line 45: write_file(path, self._generate_content())
GenerateBzlFile ==
    /\ pc = "start"
    /\ bzl_file = None
    /\ bzl_file' = Some(generate_content(lock_file))
    /\ UNCHANGED <<lock_file, pc, requirement_tree, packages>>
    /\ UNCHANGED lockVars

BzlNext == GenerateBzlFile

SpecBzl == BzlInit /\ [][BzlNext]_vars

----------------------------------------------------------------------------
(* AliasPackageGenerator.generate *)

GenInit ==
    /\ lock_file \in GenLockFiles
    /\ pc = "start"
    /\ requirement_tree = <<>>
    /\ packages = <<>>
    /\ bzl_file = None
    /\ LockIdle

\* line 129
BuildRequirementTree ==
    /\ pc = "start"
    /\ requirement_tree' = build_requirement_tree(lock_file)
    /\ pc' = IF requirement_tree' = <<>> THEN "done" ELSE "packages"
    /\ UNCHANGED <<lock_file, packages, bzl_file>>
    /\ UNCHANGED lockVars

\* lines 131-136: one turn of the loop over requirement_tree.items()
GeneratePackageForRequirement ==
    /\ pc = "packages"
    /\ LET i == Len(packages) + 1
       IN /\ packages' = Append(packages,
                 generate_package_for_requirement(requirement_tree[i][1],
                                                  requirement_tree[i][2]))
          /\ pc' = IF i = Len(requirement_tree) THEN "done" ELSE "packages"
    /\ UNCHANGED <<lock_file, requirement_tree, bzl_file>>
    /\ UNCHANGED lockVars

GenNext == BuildRequirementTree \/ GeneratePackageForRequirement

SpecGen == GenInit /\ [][GenNext]_vars


----------------------------------------------------------------------------
(* Properties of the merge, stated for Spec *)

CurrentName == EnvironmentName(current)

\* the call update_requirements_for_current_environment(rs) made in this state
UpdateFromHere(rs) ==
    update_requirements_for_current_environment(environments, sources, current, rs)

\* the requirement map the given records describe: one entry per record name,
\* built from a record of that name
DescribedBy(requirements, rs) ==
    /\ DOMAIN requirements = { rs[i].name : i \in 1..Len(rs) }
    /\ \A n \in DOMAIN requirements :
         \E i \in 1..Len(rs) :
            /\ rs[i].name = n
            /\ requirements[n].version = rs[i].version
            /\ requirements[n].is_direct = rs[i].is_direct
            /\ requirements[n].source = get_name(rs[i].source)
            /\ requirements[n].dependencies = sorted(rs[i].dependencies)
            /\ requirements[n].extras = sorted(rs[i].extras)

\* C1: after the update calls that completed, every name of the source table is
\* the source of a Requirement of some environment, and the source of every
\* Requirement of every environment is a name of the source table.
C1_SourcesAgree ==
    outcome # "raised" =>
        /\ \A k \in DOMAIN sources :
             \E e \in DOMAIN environments : \E r \in DOMAIN environments[e].requirements :
                environments[e].requirements[r].source = k
        /\ \A e \in DOMAIN environments : \A r \in DOMAIN environments[e].requirements :
             environments[e].requirements[r].source \in DOMAIN sources

\* a merge has completed and the table keeps a source that only another
\* environment than the one just merged references
C1_Witness ==
    /\ outcome = "ok"
    /\ \E k \in DOMAIN sources :
         /\ \A r \in DOMAIN environments[CurrentName].requirements :
              environments[CurrentName].requirements[r].source # k
         /\ \E e \in DOMAIN environments \ {CurrentName} :
              \E r \in DOMAIN environments[e].requirements :
                 environments[e].requirements[r].source = k

\* C2: a call made in a running process changes `environments` at the current
\* environment's key only:
\* every other entry is the same afterwards, and when the call returns the
\* current entry keeps the current platform and interpreter version and its
\* requirement map is the one the records describe, with nothing left of the
\* map it had.
C2_OnlyCurrentEnvironment ==
    outcome # "raised" =>
    \A rs \in RecordLists :
        \A result \in { UpdateFromHere(rs) } :
        LET after == result.environments IN
        /\ DOMAIN after \subseteq DOMAIN environments \cup {CurrentName}
        /\ \A e \in DOMAIN environments \ {CurrentName} :
             e \in DOMAIN after /\ after[e] = environments[e]
        /\ ~result.raised =>
             /\ CurrentName \in DOMAIN after
             /\ after[CurrentName].sys_platform = current.sys_platform
             /\ after[CurrentName].python_version = current.python_version
             /\ DescribedBy(after[CurrentName].requirements, rs)

\* a merge has completed in a lock file that holds another environment with
\* requirements, and a next merge would drop a requirement the current one has
C2_Witness ==
    /\ outcome = "ok"
    /\ \E e \in DOMAIN environments \ {CurrentName} : environments[e].requirements # EmptyDict
    /\ \E rs \in RecordLists : \E result \in { UpdateFromHere(rs) } :
         /\ ~result.raised
         /\ \E n \in DOMAIN environments[CurrentName].requirements :
              n \notin DOMAIN result.environments[CurrentName].requirements

\* C3: a call that raises on a malformed record leaves `environments` and
\* `sources` as they were before the call.
C3_FailsBeforeAnyMutation ==
    [][outcome' = "raised" => (environments' = environments /\ sources' = sources)]_vars

\* the package is pinned, in the current environment, to a remote source, and
\* the record resolves it to another URL with another sha256
SourceDrift(record) ==
    /\ outcome # "raised"
    /\ record.attrs = AllAttrs
    /\ ~is_local(record.source)
    /\ CurrentName \in DOMAIN environments
    /\ record.name \in DOMAIN environments[CurrentName].requirements
    /\ LET pinned == environments[CurrentName].requirements[record.name].source IN
       /\ pinned \in DOMAIN sources
       /\ sources[pinned].url # None
       /\ sources[pinned].url # Some(record.source.url)
       /\ sources[pinned].sha256 # Some(record.source.sha256)

\* C4 as stated: the merge of a package whose URL and sha256 changed returns,
\* leaves the new source in the table and emits exactly one warning.
C4_ExactlyOneWarning ==
    \A record \in ResolvedRequirements :
        SourceDrift(record) =>
            \A result \in { UpdateFromHere(<<record>>) } :
            /\ ~result.raised
            /\ get_name(record.source) \in DOMAIN result.sources
            /\ result.sources[get_name(record.source)] = new_source(record.source)
            /\ Len(result.warnings) = 1

\* C4, amended: the merge returns and leaves the new source in the table under
\* its derived name; it emits one warning when the table already held, under
\* that derived name, a source that differs from the new one, and none
\* otherwise (none when the file name changes, as from gamma-1.0.whl to
\* gamma-1.1.whl).
C4_WarningOnlyUnderSameName ==
    \A record \in ResolvedRequirements :
        SourceDrift(record) =>
            \A result \in { UpdateFromHere(<<record>>) } :
            \A name \in { get_name(record.source) } :
            LET held == name \in DOMAIN sources
                        /\ \/ sources[name].url # Some(record.source.url)
                           \/ sources[name].sha256 # Some(record.source.sha256)
                           \/ sources[name].file # None
            IN
            /\ ~result.raised
            /\ name \in DOMAIN result.sources
            /\ result.sources[name] = new_source(record.source)
            /\ Len(result.warnings) = (IF held THEN 1 ELSE 0)

\* a merge of gamma re-resolved from the other host has completed with its one
\* warning, and a further drift of gamma is possible from here
C4_Witness ==
    /\ outcome = "ok"
    /\ Len(warnings) = 1
    /\ \E record \in ResolvedRequirements : SourceDrift(record)

\* C5: in every lock file a running process holds, merging the same records
\* twice in a row ends as merging them once does, leaves `environments` and
\* `sources` as merging them once does, and to_json gives the same text.
C5_Idempotent ==
    outcome # "raised" =>
    \A rs \in RecordLists :
        \A once \in { UpdateFromHere(rs) } :
        \A twice \in { update_requirements_for_current_environment(
                           once.environments, once.sources, current, rs) } :
            /\ twice.raised = once.raised
            /\ twice.environments = once.environments
            /\ twice.sources = once.sources
            /\ to_json(LockFile(twice.environments, twice.sources, local_wheels_package))
                 = to_json(LockFile(once.environments, once.sources, local_wheels_package))

\* a merge of some records has completed and changed the lock file it found:
\* merging them here is the second application
C5_Witness ==
    /\ outcome = "ok"
    /\ sources # EmptyDict
    /\ \E rs \in RecordLists : \E result \in { UpdateFromHere(rs) } :
         /\ rs # <<>>
         /\ ~result.raised
         /\ result.environments = environments
         /\ result.sources = sources

----------------------------------------------------------------------------
(* Properties of the generator, stated for SpecGen *)

\* the positions in a BUILD file of the rules of a given name
RulesNamed(build, name) == { n \in 1..Len(build) : build[n].name = name }

\* py<version>_<platform>
TargetName(python_version, platform) ==
    <<"p", "y">> \o FormatInt(python_version) \o <<"_">> \o platform

\* @pip__<source>
SourceRepository(source) == <<"@", "p", "i", "p", "_", "_">> \o source

\* @pip__<source>//:lib
SourceLibrary(source) == SourceRepository(source) \o <<"/", "/", ":", "l", "i", "b">>

\* the sources of the cells of one interpreter version
CellSources(platform_subtree) ==
    { platform_subtree[j][2].source : j \in 1..Len(platform_subtree) }

\* what is found where the BUILD file has no rule, or several, of a name
NoRule ==
    [kind |-> "none", name |-> <<>>, deps |-> <<>>, actual |-> <<>>, visibility |-> <<>>]

\* the one rule of the given name in the BUILD file
TheRuleNamed(build, name) ==
    IF Cardinality(RulesNamed(build, name)) = 1
    THEN build[CHOOSE n \in RulesNamed(build, name) : TRUE]
    ELSE NoRule

\* C6: in every package written, the top-level alias has one arm per
\* interpreter version of the package, the arm of a version leads to a version
\* alias with one arm per platform under it, and the arm of a platform leads
\* to the target py<version>_<platform>, a py_library whose source library is
\* that of the source recorded in the cell.
C6_RoutesToCellSource ==
    \A k \in 1..Len(packages) :
        LET python_subtree == requirement_tree[k][2]
            build == packages[k].build
            top_alias == TheRuleNamed(build, requirement_tree[k][1])
        IN
        /\ top_alias.kind = "alias"
        /\ Len(top_alias.actual) = Len(python_subtree)
        /\ \A i \in 1..Len(python_subtree) :
             LET python_version == python_subtree[i][1]
                 platform_subtree == python_subtree[i][2]
                 version_label == make_python_version_label(python_version)
                 version_alias == TheRuleNamed(build, ODGet(top_alias.actual, version_label))
             IN
             /\ ODHas(top_alias.actual, version_label)
             /\ version_alias.kind = "alias"
             /\ Len(version_alias.actual) = Len(platform_subtree)
             /\ \A j \in 1..Len(platform_subtree) :
                  LET platform == platform_subtree[j][1]
                      platform_label == make_platform_label(rules_pip_repo, platform)
                      target == TheRuleNamed(build, ODGet(version_alias.actual, platform_label))
                  IN
                  /\ ODHas(version_alias.actual, platform_label)
                  /\ ODGet(version_alias.actual, platform_label)
                       = TargetName(python_version, platform)
                  /\ target.kind = "py_library"
                  /\ target.deps[1] = SourceLibrary(platform_subtree[j][2].source)

\* every package is written, and one of them has two platforms under one
\* interpreter version resolved to different sources
C6_Witness ==
    /\ pc = "done"
    /\ \E k \in 1..Len(packages) : \E i \in 1..Len(requirement_tree[k][2]) :
         /\ Len(requirement_tree[k][2][i][2]) = 2
         /\ Cardinality(CellSources(requirement_tree[k][2][i][2])) = 2

\* some cell of the package has is_direct = true
SomeCellIsDirect(python_subtree) ==
    \E i \in 1..Len(python_subtree) : \E j \in 1..Len(python_subtree[i][2]) :
        python_subtree[i][2][j][2].is_direct

\* C7: the top-level alias of a package is public when some cell of the
\* package has is_direct = true, whichever cell it is, and visible to
\* //:__subpackages__ when none has.
C7_PublicIffDirect ==
    \A k \in 1..Len(packages) :
        LET top_alias == TheRuleNamed(packages[k].build, requirement_tree[k][1]) IN
        /\ top_alias.kind = "alias"
        /\ top_alias.visibility = IF SomeCellIsDirect(requirement_tree[k][2])
                                  THEN VisibilityPublic
                                  ELSE VisibilitySubpackages

\* a package is written whose first platform of an interpreter version is
\* direct and whose last is not, and its top-level alias is public
C7_Witness ==
    \E k \in 1..Len(packages) : \E i \in 1..Len(requirement_tree[k][2]) :
        LET platform_subtree == requirement_tree[k][2][i][2] IN
        /\ Len(platform_subtree) = 2
        /\ platform_subtree[1][2].is_direct
        /\ ~platform_subtree[2][2].is_direct
        /\ \E n \in RulesNamed(packages[k].build, requirement_tree[k][1]) :
             packages[k].build[n].visibility = VisibilityPublic

\* the version alias py<version> of a BUILD file
TheVersionAlias(build, python_version) ==
    TheRuleNamed(build, <<"p", "y">> \o FormatInt(python_version))

\* the lines of repos.bzl that define the variable of the given name
DefinitionsOf(repos, name) ==
    LET start == name \o <<" ", "=", " ">> IN
    { repos[n] : n \in { m \in 1..Len(repos) :
                            /\ Len(repos[m]) >= Len(start)
                            /\ SubSeq(repos[m], 1, Len(start)) = start } }

\* C8 as stated: for an interpreter version whose platforms all resolve to one
\* source the version alias is a single reference and no conditional over the
\* platforms; for one whose platforms resolve to different sources it is a
\* conditional with one arm per platform.
C8_CollapsedToSingleReference ==
    \A k \in 1..Len(packages) : \A i \in 1..Len(requirement_tree[k][2]) :
        LET platform_subtree == requirement_tree[k][2][i][2]
            version_alias == TheVersionAlias(packages[k].build, requirement_tree[k][2][i][1])
        IN
        /\ version_alias.kind = "alias"
        /\ IF Cardinality(CellSources(platform_subtree)) = 1
           THEN Len(version_alias.actual) <= 1
           ELSE Len(version_alias.actual) = Len(platform_subtree)

\* C8, amended: the version alias is a conditional with one arm per platform
\* whether or not the platforms resolve to one source; the single reference is
\* the variable py<version> of repos.bzl, defined exactly when all platforms
\* of the version resolve to one source, as the repository of that source.
C8_ConditionalKeptVariableCollapsed ==
    \A k \in 1..Len(packages) : \A i \in 1..Len(requirement_tree[k][2]) :
        LET python_version == requirement_tree[k][2][i][1]
            platform_subtree == requirement_tree[k][2][i][2]
            variable == <<"p", "y">> \o FormatInt(python_version)
            single == DefinitionsOf(packages[k].repos, variable)
            version_alias == TheVersionAlias(packages[k].build, python_version)
        IN /\ version_alias.kind = "alias"
           /\ Len(version_alias.actual) = Len(platform_subtree)
           /\ single = IF Cardinality(CellSources(platform_subtree)) = 1
                       THEN { variable \o <<" ", "=", " ", "\"">> \o SourceRepository(src)
                                  \o <<"\"">> : src \in CellSources(platform_subtree) }
                       ELSE {}

\* a package is written in which two platforms of one interpreter version
\* resolve to the same source
C8_Witness ==
    \E k \in 1..Len(packages) : \E i \in 1..Len(requirement_tree[k][2]) :
        /\ Len(requirement_tree[k][2][i][2]) = 2
        /\ Cardinality(CellSources(requirement_tree[k][2][i][2])) = 1

\* the tree has the cell and it holds the given detail
TreeCellIs(tree, name, python_version, platform, details) ==
    /\ ODHas(tree, name)
    /\ ODHas(ODGet(tree, name), python_version)
    /\ ODHas(ODGet(ODGet(tree, name), python_version), platform)
    /\ ODGet(ODGet(ODGet(tree, name), python_version), platform) = details

\* C9: once the tree is built, every requirement of every environment is the
\* cell of its normalized name, interpreter version and canonical platform,
\* and every cell is such a requirement.
C9_TreeLosesNothing ==
    pc # "start" =>
        /\ \A e \in 1..Len(lock_file.environments) :
             LET environment_details == lock_file.environments[e][2] IN
             \A r \in 1..Len(environment_details.requirements) :
                TreeCellIs(requirement_tree,
                    normalize_distribution_name(environment_details.requirements[r][1]),
                    environment_details.python_version,
                    convert_sys_platform_to_bazel(environment_details.sys_platform),
                    environment_details.requirements[r][2])
        /\ \A k \in 1..Len(requirement_tree) :
           \A i \in 1..Len(requirement_tree[k][2]) :
           \A j \in 1..Len(requirement_tree[k][2][i][2]) :
              \E e \in 1..Len(lock_file.environments) :
                 LET environment_details == lock_file.environments[e][2] IN
                 /\ environment_details.python_version = requirement_tree[k][2][i][1]
                 /\ convert_sys_platform_to_bazel(environment_details.sys_platform)
                      = requirement_tree[k][2][i][2][j][1]
                 /\ \E r \in 1..Len(environment_details.requirements) :
                      normalize_distribution_name(environment_details.requirements[r][1])
                        = requirement_tree[k][1]

\* lower case, hyphens written as underscores
NormalizedSpelling(name) ==
    [n \in 1..Len(name) |-> IF name[n] = "-" THEN "_" ELSE LowerChar(name[n])]

\* C10: the edges of every environment-specific target after its source
\* library are, in order, // followed by the normalized spelling of its
\* dependencies: //my_package for My-Package and for my_package; and a
\* requirement named with either spelling is the tree entry my_package, whose
\* package directory that edge names.
C10_EdgesNormalized ==
    /\ \A k \in 1..Len(packages) :
       \A i \in 1..Len(requirement_tree[k][2]) :
       \A j \in 1..Len(requirement_tree[k][2][i][2]) :
          LET details == requirement_tree[k][2][i][2][j][2]
              target == TheRuleNamed(packages[k].build,
                            TargetName(requirement_tree[k][2][i][1],
                                       requirement_tree[k][2][i][2][j][1]))
          IN
          /\ target.kind = "py_library"
          /\ Len(target.deps) = 1 + Len(details.dependencies)
          /\ \A d \in 1..Len(details.dependencies) :
               /\ target.deps[1 + d]
                    = <<"/", "/">> \o NormalizedSpelling(details.dependencies[d])
               /\ details.dependencies[d] \in {MyPackage, my_package}
                    => target.deps[1 + d] = <<"/", "/">> \o my_package
    /\ pc = "done" =>
         \A e \in 1..Len(lock_file.environments) :
         \A r \in 1..Len(lock_file.environments[e][2].requirements) :
            lock_file.environments[e][2].requirements[r][1] \in {MyPackage, my_package}
              => \E k \in 1..Len(packages) :
                    /\ requirement_tree[k][1] = my_package
                    /\ packages[k].dir = my_package
                    /\ RulesNamed(packages[k].build, my_package) # {}

\* every package is written, the lock file names a requirement My-Package, and
\* a target with the dependencies My-Package and my_package is written
C10_Witness ==
    /\ pc = "done"
    /\ \E e \in 1..Len(lock_file.environments) :
       \E r \in 1..Len(lock_file.environments[e][2].requirements) :
          lock_file.environments[e][2].requirements[r][1] = MyPackage
    /\ \E k \in 1..Len(packages) : \E n \in 1..Len(packages[k].build) :
          /\ packages[k].build[n].kind = "py_library"
          /\ Len(packages[k].build[n].deps) = 3
          /\ packages[k].build[n].deps[2] = packages[k].build[n].deps[3]

\* AliasPackageGenerator.generate as a whole: the packages written for a lock
\* file, in the order they are written
generate(lock) ==
    LET tree == build_requirement_tree(lock)
    IN [k \in 1..Len(tree) |->
           generate_package_for_requirement(tree[k][1], tree[k][2])]

\* the lock files that list the environments of the given one in another order
Reordered(lock) ==
    { [lock EXCEPT !.environments =
           [i \in 1..Len(lock.environments) |-> lock.environments[order[i]]]]
        : order \in Permutations(1..Len(lock.environments)) }

\* C11: a lock file that lists the same environments in another order gives
\* the same generated text: the same package directories, and in each the
\* BUILD file with the same rules in the same order and the same arms in the
\* same order, and the same repos.bzl.
C11_SameTextForEveryOrder ==
    pc = "done" =>
        \A other \in Reordered(lock_file) :
            /\ Len(generate(other)) = Len(packages)
            /\ \A k \in 1..Len(packages) :
                 \E m \in 1..Len(generate(other)) : generate(other)[m] = packages[k]

----------------------------------------------------------------------------
(* Properties of the serialization, stated for Spec *)

\* the values of local_wheels_package: unset, or a package label

\* C12: for the lock file a process holds, with any local wheels package,
\* from_json of the text to_json writes is a LockFile with the same
\* environments, sources and local wheels package, and to_json of it is the
\* same text.
C12_RoundTrip ==
    \A lwp \in LocalWheelsPackages :
        \A x \in { LockFile(environments, sources, lwp) } :
        \A text \in { to_json(x) } :
        \A loaded \in { from_json(text) } :
            /\ loaded.environments = x.environments
            /\ loaded.sources = x.sources
            /\ loaded.local_wheels_package = x.local_wheels_package
            /\ to_json(loaded) = text

\* the lock file has two environments, a source with no url and a source with
\* no file, and a requirement with several dependencies
C12_Witness ==
    /\ Cardinality(DOMAIN environments) = 2
    /\ \E k \in DOMAIN sources : sources[k].url = None
    /\ \E k \in DOMAIN sources : sources[k].file = None
    /\ \E e \in DOMAIN environments : \E r \in DOMAIN environments[e].requirements :
         Len(environments[e].requirements[r].dependencies) > 1

\* ascending, with no element twice
StrictlyAscending(list) ==
    \A i \in 1..Len(list) : \A j \in 1..Len(list) :
        i < j => StrLess(list[i], list[j])

\* C13: in every Requirement of the lock file a process holds, and of the
\* lock file loaded from its text, `dependencies` and `extras` are in
\* ascending order and hold no element twice.
C13_SortedWithoutDuplicates ==
    \A held \in { LockFile(environments, sources, local_wheels_package) } :
    \A lock \in { held, from_json(to_json(held)) } :
    \A e \in DOMAIN lock.environments :
    \A r \in DOMAIN lock.environments[e].requirements :
        /\ StrictlyAscending(lock.environments[e].requirements[r].dependencies)
        /\ StrictlyAscending(lock.environments[e].requirements[r].extras)

----------------------------------------------------------------------------
(* Properties of the source rules, stated for SpecBzl *)

\* the rules of the written file declared under the repository name of a source
RulesOfSource(rules, source_name) ==
    { i \in 1..Len(rules) : rules[i].name = <<"p", "i", "p", "_", "_">> \o source_name }

\* what the rule at one position must be for the source at that position
RuleMatchesSource(rule, source_name, source, location) ==
    /\ rule.name = <<"p", "i", "p", "_", "_">> \o source_name
    /\ rule.guard = rule.name
    /\ (rule.kind = "remote_wheel") <=> ODHas(source, "url")
    /\ ODHas(source, "url") =>
          /\ rule.url = ODGet(source, "url")
          /\ rule.sha256 = (IF ODHas(source, "sha256") THEN ODGet(source, "sha256") ELSE "")
    /\ ~ODHas(source, "url") =>
          /\ rule.kind = "local_wheel"
          /\ location # None =>
                rule.wheel = TheValue(location) \o <<":">> \o ODGet(source, "file")

\* C14: the written file holds exactly one rule per source of the lock file,
\* named pip__<source name> and guarded by an existing_rule test of that same
\* name; it is a remote_wheel carrying the url and the sha256 (empty when
\* absent) exactly when the source has a url, else a local_wheel of
\* <local_wheels_package>:<file>; and a source the merge wrote for a resolved
\* record is declared local exactly when the record's URL has the file scheme
C14_OneGuardedRulePerSource ==
    bzl_file # None =>
        \A rules \in { TheValue(bzl_file).pip_install } :
            /\ Len(rules) = Len(lock_file.sources)
            /\ \A i \in 1..Len(rules) :
                  /\ RuleMatchesSource(rules[i], lock_file.sources[i][1],
                                       lock_file.sources[i][2],
                                       lock_file.local_wheels_package)
                  /\ RulesOfSource(rules, lock_file.sources[i][1]) = {i}
            /\ \A record \in ResolvedRequirements :
                  \A name \in { get_name(record.source) } :
                      (/\ outcome = "ok"
                       /\ name \in DOMAIN sources
                       /\ sources[name] = new_source(record.source))
                      => \E i \in RulesOfSource(rules, name) :
                            (rules[i].kind = "local_wheel") <=> is_local(record.source)

\* the file is written for a lock file the merge wrote with a fetched and a
\* local source
C14_Witness ==
    /\ bzl_file # None
    /\ outcome = "ok"
    /\ \E i, j \in 1..Len(lock_file.sources) :
          /\ ODHas(lock_file.sources[i][2], "url")
          /\ ODHas(lock_file.sources[i][2], "sha256")
          /\ ODHas(lock_file.sources[j][2], "file")
          /\ TheValue(bzl_file).pip_install[i].kind = "remote_wheel"
          /\ TheValue(bzl_file).pip_install[j].kind = "local_wheel"
    /\ lock_file.local_wheels_package # None


----------------------------------------------------------------------------
(* Properties of LockFile objects in one process, stated for SpecShared *)

\* the LockFile lacked the entry of the current environment and obtained it
\* from _get_or_create_current_environment
ObtainedCurrent(id) ==
    /\ EnvironmentName(current) \in DOMAIN lock_files[id].environments
    /\ lock_files[id].environments[EnvironmentName(current)] = None

\* C15: once two LockFile objects that lacked the entry of the current
\* environment have each obtained it, an update of one of them leaves the
\* environments, and so the requirement maps, of the other as they were
C15_OtherLockFileUnchanged ==
    [][\A id \in LockFileIds, other \in LockFileIds, rs \in SharedRecordLists :
          (/\ id # other
           /\ ObtainedCurrent(id)
           /\ ObtainedCurrent(other)
           /\ SharedUpdate(id, rs))
          => EnvironmentsOf(lock_files[other], current)'
                = EnvironmentsOf(lock_files[other], current)]_vars

====
